---- MODULE Spec2Model ----
(***************************************************************************)
(* ai_common: the concurrent search-and-summarize pipeline.                *)
(*                                                                         *)
(*   WebSearchNode.run_async   components/web_search_node.py               *)
(*   WebSearch.search          web_search.py                               *)
(*   tavily_search_async, deduplicate_sources, format_sources   utils.py   *)
(*                                                                         *)
(* Python values are modelled as follows.  A dict is a TLA+ record whose   *)
(* DOMAIN is the set of keys it has; an insertion-ordered dict is a        *)
(* sequence of [k, v] entries; None-or-value is a sequence of length 0 or  *)
(* 1; a text is [src, len], its identity and its length in characters, so  *)
(* that slicing is computed and not assumed.                               *)
(***************************************************************************)
EXTENDS Integers, Sequences, FiniteSets, TLC

VARIABLES
    state,          \* the caller-owned state object handed to run_async
    state0,         \* state as it was when the run was entered (history)
    pc,             \* position of the entered call
    frame,          \* who awaits WebSearch.search: "run_async" or "caller"
    error,          \* the exception that left the call, "" when none
    search_tasks,   \* tavily_search_async: one client.search task per query
    search_order,   \* indices of the finished search tasks, in completion order
    unique_sources, \* run_async's local unique_sources / search's return value
    sum_tasks,      \* run_async: one summarize_source task per unique source
    sum_order,      \* indices of the finished summarize tasks, in completion order
    batches,        \* the argument of a call of deduplicate_sources by itself
    formatted_text, \* what format_sources returned: the pieces of its string
    other,          \* the variables of a second run, while this one is scheduled
    text,           \* strip_thinking_tokens: its local text
    history,        \* Engine.history
    calls,          \* the get_response calls made so far, with their outcome (history)
    namespace,      \* the public attributes of the package ai_common
    sys_modules,    \* the submodules of ai_common in sys.modules
    import_stack    \* the modules being executed by import, innermost last

\* what the search-and-summarize pipeline does not touch
libVars == <<other, text, history, calls, namespace, sys_modules, import_stack>>

vars == <<state, state0, pc, frame, error, search_tasks, search_order,
          unique_sources, sum_tasks, sum_order, batches, formatted_text, libVars>>

-----------------------------------------------------------------------------
(* Bounds of the model *)

MaxQueries == 2     \* longest state.search_queries / search_queries list
MaxBatch == 2       \* most records in one batch handed to deduplicate_sources
MaxUsage == 1       \* most tokens (input plus output) one LLM call reports
MaxSources == 2     \* most entries of a map handed to format_sources
MaxText == 4        \* longest text (in tokens) handed to strip_thinking_tokens
MaxGrown == 6       \* longest text strip_thinking_tokens is followed to

-----------------------------------------------------------------------------
(* Python values *)

None == <<>>
Some(x) == <<x>>
Text(s, n) == [src |-> s, len |-> n]

Min(a, b) == IF a <= b THEN a ELSE b

\* text[:n]
Slice(t, n) == [src |-> t.src, len |-> Min(t.len, n)]

SeqsUpTo(S, n) == UNION {[1..k -> S] : k \in 0..n}

RECURSIVE SumSeq(_)
\* sum([...])
SumSeq(s) == IF s = <<>> THEN 0 ELSE s[1] + SumSeq(Tail(s))

\* dict views of an insertion-ordered dict
Keys(m) == [i \in 1..Len(m) |-> m[i].k]
HasKey(m, key) == \E i \in 1..Len(m) : m[i].k = key

hasattr(o, a) == a \in DOMAIN o

-----------------------------------------------------------------------------
(* The data the environment supplies *)

NoneText == "<None>"            \* SearchQuery.search_query defaults to None

\* objects found in state.search_queries; the last has no search_query attribute
QueryObjects ==
    {[search_query |-> "q1"], [search_query |-> NoneText], [other |-> "x"]}

QueryTexts == {"q1", "q2"}      \* what a direct caller of WebSearch.search passes

\* records of the search provider: url a twice with different fields, raw
\* content shorter and longer than the cap of summarize_source, a record without
\* title, a record without url, a record without raw_content
Ra1 == [url |-> "a", title |-> "T1", content |-> Text("c1", 5), raw_content |-> None]
Ra2 == [url |-> "a", title |-> "T2", content |-> Text("c2", 5),
        raw_content |-> Some(Text("r2", 7))]
Rb == [url |-> "b", title |-> "T3", content |-> Text("c3", 5),
       raw_content |-> Some(Text("r3", 100001))]
Rc == [url |-> "c", title |-> "T4", content |-> Text("c4", 5),
       raw_content |-> Some(Text("r4", 102401))]
RcNoTitle == [url |-> "c", content |-> Text("c5", 5), raw_content |-> None]
RNoUrl == [title |-> "T6", content |-> Text("c6", 5), raw_content |-> None]
RNoRaw == [url |-> "d", title |-> "T7", content |-> Text("c7", 5)]

\* a response of client.search: {'query': ..., 'results': [...]}; a batch handed
\* to deduplicate_sources may also be a bare list of records (form "list")
Response(query, results) == [form |-> "dict", query |-> query, results |-> results]

\* the result lists the provider answers a query with
ProviderResults ==
    {<<>>, <<Ra1, Rb>>, <<Ra2, Rc>>, <<Rb, RcNoTitle>>, <<RNoUrl>>, <<RNoRaw>>}

\* the batches a caller hands to deduplicate_sources: a response dict or a
\* bare list, of records with or without url
DedupRecords == {Ra1, Ra2, Rb, RNoUrl}
ListRecords == {Ra2, Rb}

Batches ==
    {Response("q1", r) : r \in SeqsUpTo(DedupRecords, MaxBatch)}
    \cup {[form |-> "list", items |-> r] : r \in SeqsUpTo(ListRecords, MaxBatch)}

\* the maps a caller hands to format_sources: records keyed by their url, with
\* raw_content null, absent, or of a length around max_tokens_per_source * 4;
\* a record without title
FormatUrls == {"a", "b", "c"}
TitleOf == [a |-> "Ta", b |-> "Tb", c |-> "Tc"]
RawContents == {None} \cup {Some(Text("r", n)) : n \in {0, 4, 5, 8, 10}}

FormatRecords(u) ==
    {[url |-> u, title |-> TitleOf[u], content |-> Text(u, 5), raw_content |-> rc] :
        rc \in RawContents}
    \cup {[url |-> u, title |-> TitleOf[u], content |-> Text(u, 5)],
          [url |-> u, content |-> Text(u, 5), raw_content |-> None]}

FormatMaps ==
    {m \in SeqsUpTo(UNION {{[k |-> u, v |-> r] : r \in FormatRecords(u)} :
                                u \in FormatUrls}, MaxSources) :
        \A i, j \in 1..Len(m) : m[i].k = m[j].k => i = j}

\* the usage one LLM call reports for self.model_name
Usages ==
    {u \in [input_tokens : 0..MaxUsage, output_tokens : 0..MaxUsage] :
        u.input_tokens + u.output_tokens <= MaxUsage}

\* state.token_usage[self.model_name] when the run is entered
StartUsages ==
    {[input_tokens |-> 0, output_tokens |-> 0],
     [input_tokens |-> MaxUsage, output_tokens |-> MaxUsage + 1]}

\* the state objects a caller hands to run_async; an absent attribute is an
\* absent field
States ==
    LET rest == [token_usage : StartUsages, steps : {<<"query_writer">>},
                 source_str : {None}, unique_sources : {None}]
        topics == {[topic |-> t] : t \in {"", "t"}} \cup {<<>>}
        queries == {[search_queries |-> q] :
                        q \in SeqsUpTo(QueryObjects, MaxQueries)} \cup {<<>>}
    IN  {r @@ t @@ q : r \in rest, t \in topics, q \in queries}

-----------------------------------------------------------------------------
(* utils.py: pure functions *)

\* lines 261-266: the batches flattened in batch order, then within-batch order
RECURSIVE sources_list(_)
sources_list(search_response) ==
    IF search_response = <<>> THEN <<>>
    ELSE LET response == Head(search_response)
         IN  (IF response.form = "dict" /\ "results" \in DOMAIN response
              THEN response.results
              ELSE response.items)
             \o sources_list(Tail(search_response))

\* lines 269-272: one pass, inserting a source only under a url not yet a key;
\* source['url'] of a record without url raises KeyError
\* as DedupLoop, but a record without url is skipped (source.get('url'))
RECURSIVE DedupLoopSkip(_, _)
DedupLoopSkip(list, acc) ==
    IF list = <<>> THEN [raised |-> "", value |-> acc]
    ELSE IF ~("url" \in DOMAIN Head(list)) THEN DedupLoopSkip(Tail(list), acc)
    ELSE IF ~HasKey(acc, Head(list).url)
         THEN DedupLoopSkip(Tail(list),
                  Append(acc, [k |-> Head(list).url, v |-> Head(list)]))
         ELSE DedupLoopSkip(Tail(list), acc)

\* as DedupLoop, but a url seen again moves its entry to the end of the map
RECURSIVE DedupLoopReinsert(_, _)
DedupLoopReinsert(list, acc) ==
    IF list = <<>> THEN [raised |-> "", value |-> acc]
    ELSE IF ~("url" \in DOMAIN Head(list)) THEN [raised |-> "KeyError", value |-> <<>>]
    ELSE IF ~HasKey(acc, Head(list).url)
         THEN DedupLoopReinsert(Tail(list),
                  Append(acc, [k |-> Head(list).url, v |-> Head(list)]))
         ELSE DedupLoopReinsert(Tail(list),
                  SelectSeq(acc, LAMBDA e : e.k # Head(list).url)
                  \o SelectSeq(acc, LAMBDA e : e.k = Head(list).url))

\* as DedupLoop, but a later record replaces the one stored under its url
RECURSIVE DedupLoopOverwrite(_, _)
DedupLoopOverwrite(list, acc) ==
    IF list = <<>> THEN [raised |-> "", value |-> acc]
    ELSE IF ~("url" \in DOMAIN Head(list)) THEN [raised |-> "KeyError", value |-> <<>>]
    ELSE IF ~HasKey(acc, Head(list).url)
         THEN DedupLoopOverwrite(Tail(list),
                  Append(acc, [k |-> Head(list).url, v |-> Head(list)]))
         ELSE DedupLoopOverwrite(Tail(list),
                  [i \in 1..Len(acc) |->
                      IF acc[i].k = Head(list).url
                      THEN [k |-> acc[i].k, v |-> Head(list)] ELSE acc[i]])

RECURSIVE DedupLoop(_, _)
DedupLoop(list, acc) ==
    IF list = <<>> THEN [raised |-> "", value |-> acc]
    ELSE IF ~("url" \in DOMAIN Head(list)) THEN [raised |-> "KeyError", value |-> <<>>]
    ELSE IF ~HasKey(acc, Head(list).url)
         THEN DedupLoop(Tail(list), Append(acc, [k |-> Head(list).url, v |-> Head(list)]))
         ELSE DedupLoop(Tail(list), acc)

deduplicate_sources(search_response) == DedupLoop(sources_list(search_response), <<>>)

char_limit(max_tokens_per_source) == max_tokens_per_source * 4

\* lines 288-298: one source's raw content as format_sources prints it
\* as FormatRaw, but >= in place of > in the test of line 296
FormatRawGe(source, max_tokens_per_source) ==
    LET raw_content ==
            IF "raw_content" \in DOMAIN source /\ source.raw_content # None
            THEN source.raw_content[1] ELSE Text("", 0)
    IN  IF raw_content.len >= char_limit(max_tokens_per_source)
        THEN [text |-> Slice(raw_content, char_limit(max_tokens_per_source)),
              truncated |-> TRUE]
        ELSE [text |-> raw_content, truncated |-> FALSE]

FormatRaw(source, max_tokens_per_source) ==
    LET raw_content ==
            IF "raw_content" \in DOMAIN source /\ source.raw_content # None
            THEN source.raw_content[1] ELSE Text("", 0)
    IN  IF raw_content.len > char_limit(max_tokens_per_source)
        THEN [text |-> Slice(raw_content, char_limit(max_tokens_per_source)),
              truncated |-> TRUE]
        ELSE [text |-> raw_content, truncated |-> FALSE]

\* the string format_sources builds, as the sequence of its pieces: a piece is
\* a label with the number, the string or the text printed after it; "blank" is
\* the "\n\n" that ends a paragraph
Piece(kind, n, str, body) == [kind |-> kind, n |-> n, str |-> str, text |-> body]
Lit(kind) == Piece(kind, 0, "", Text("", 0))
Blank == Lit("blank")

\* str.strip(): the whitespace at both ends removed
RECURSIVE lstrip(_)
lstrip(t) == IF t # <<>> /\ Head(t) = Blank THEN lstrip(Tail(t)) ELSE t
RECURSIVE rstrip(_)
rstrip(t) ==
    IF t # <<>> /\ t[Len(t)] = Blank THEN rstrip(SubSeq(t, 1, Len(t) - 1)) ELSE t
strip(t) == rstrip(lstrip(t))

\* lines 283-300: what one turn of the loop appends
SourceBlock(i, url, source, max_tokens_per_source, include_raw_content) ==
    <<Piece("Source", i, "", Text("", 0)), Blank,
      Piece("Title", 0, source.title, Text("", 0)), Blank,
      Piece("URL", 0, url, Text("", 0)), Blank,
      Piece("Most relevant content from source", 0, "", source.content),
      Lit("=="), Blank>>
    \o (IF include_raw_content
        THEN LET raw == FormatRaw(source, max_tokens_per_source)
             IN  <<Piece("Full source content limited to", max_tokens_per_source,
                         "", raw.text)>>
                 \o (IF raw.truncated THEN <<Lit("... [truncated]")>> ELSE <<>>)
                 \o <<Blank>>
        ELSE <<>>)
    \o <<Lit("===="), Blank>>

RECURSIVE FormatLoop(_, _, _, _)
FormatLoop(sources, i, max_tokens_per_source, include_raw_content) ==
    IF i > Len(sources) THEN <<>>
    ELSE SourceBlock(i, sources[i].k, sources[i].v, max_tokens_per_source,
                     include_raw_content)
         \o FormatLoop(sources, i + 1, max_tokens_per_source, include_raw_content)

\* lines 277-302; source["title"] and source['content'] of a record without
\* the key raise KeyError
\* as format_sources, but the text is returned as built, not stripped
format_sourcesUnstripped(sources, max_tokens_per_source, include_raw_content) ==
    IF \E i \in 1..Len(sources) : ~({"title", "content"} \subseteq DOMAIN sources[i].v)
    THEN [raised |-> "KeyError", value |-> <<>>]
    ELSE [raised |-> "",
          value |-> <<Lit("Sources:"), Blank>>
                        \o FormatLoop(sources, 1, max_tokens_per_source,
                                      include_raw_content)]

format_sources(sources, max_tokens_per_source, include_raw_content) ==
    IF \E i \in 1..Len(sources) : ~({"title", "content"} \subseteq DOMAIN sources[i].v)
    THEN [raised |-> "KeyError", value |-> <<>>]
    ELSE [raised |-> "",
          value |-> strip(<<Lit("Sources:"), Blank>>
                        \o FormatLoop(sources, 1, max_tokens_per_source,
                                      include_raw_content))]

-----------------------------------------------------------------------------
(* The two fan-outs: asyncio.gather over one task per query / per source *)

\* await asyncio.gather(*tasks): the results in the order of the tasks, whatever
\* the order the tasks finished in
\* as gather, but the results in the order the tasks finished in
gatherAsCompleted(tasks, order) == [i \in 1..Len(order) |-> tasks[order[i]].result[1]]

gather(tasks, order) == [i \in 1..Len(tasks) |-> tasks[i].result[1]]

Pending(tasks) == {i \in 1..Len(tasks) : tasks[i].status = "pending"}
SomeFailed(tasks) == \E i \in 1..Len(tasks) : tasks[i].status = "failed"
AllDone(tasks) == \A i \in 1..Len(tasks) : tasks[i].status = "done"

\* web_search.py lines 87-96: the parameters of WebSearch.search, none defaulted
SearchParams ==
    {"search_queries", "search_category", "search_depth", "chunks_per_source",
     "number_of_days_back", "max_results_per_query", "include_images",
     "include_image_descriptions", "include_favicon"}

\* web_search_node.py lines 122-127: the keywords run_async calls it with
RunAsyncKeywords ==
    {"search_queries", "search_category", "number_of_days_back",
     "max_results_per_query"}

max_length == 102400

\* summarize_source lines 53-54: the context put into the prompt
\* as Context, but raw_content is put into the prompt whole
ContextUncut(source_dict) ==
    IF source_dict.raw_content # None
    THEN source_dict.raw_content[1]
    ELSE source_dict.content

Context(source_dict) ==
    IF source_dict.raw_content # None
    THEN Slice(source_dict.raw_content[1], max_length)
    ELSE source_dict.content

\* the text the LLM answers a prompt with
Summary(prompt) == [src |-> prompt.context.src, len |-> 3, by |-> "llm"]

\* enums.py lines 37-42: the class attributes of NodeBase are plain str objects
\* (a str is modelled by the record of its attributes the code reads: none)
PyStr(s) == [str |-> s]
NodeBase == [QUERY_WRITER |-> PyStr("query_writer"), WEB_SEARCH |-> PyStr("web_search")]

max_tokens_per_source == 5000

Raise(exc) ==
    /\ pc' = "failed"
    /\ error' = exc

-----------------------------------------------------------------------------
(* WebSearchNode.run_async *)

\* lines 107-120: the checks on state.search_queries
RunAsyncValidate ==
    /\ pc = "idle"
    /\ frame.who = "run_async"
    /\ state0' = state
    /\ IF ~hasattr(state, "search_queries")
       THEN Raise("AttributeError")
       ELSE IF state.search_queries = <<>>
       THEN Raise("ValueError")
       ELSE IF \E i \in 1..Len(state.search_queries) :
                    ~hasattr(state.search_queries[i], "search_query")
       THEN Raise("AttributeError")
       ELSE pc' = "call_search" /\ error' = error
    /\ UNCHANGED <<state, frame, search_tasks, search_order, unique_sources,
                   sum_tasks, sum_order, batches, formatted_text, libVars>>

\* enums.py lines 26-30
TavilySearchCategory == {"general", "finance", "news"}

\* dates as proleptic Gregorian ordinals (date.toordinal): 1919-05-19, and the
\* day the search is run on
EarliestDate == 700673
Todays == {739923}
DaysBack == {7, 40000}

\* tavily_search_async lines 151-152
start_date_str(today, number_of_days_back) ==
    LET start_date == today - number_of_days_back
    IN  IF start_date > EarliestDate THEN start_date ELSE EarliestDate

\* lines 154-164: the keyword arguments of every client.search (those not
\* shown are the arguments of the call, passed on as they are)
SearchKwargs(search_category, today, number_of_days_back) ==
    [include_raw_content |-> TRUE,
     topic |-> search_category,
     start_date |-> start_date_str(today, number_of_days_back)]

\* WebSearch.search entered with the keywords `keywords`: a missing parameter is
\* a TypeError of the call; else tavily_search_async lines 154-171 start one
\* client.search per query and await them all
WebSearchSearch(who, keywords, search_queries) ==
    IF ~(SearchParams \subseteq keywords)
    THEN /\ Raise("TypeError")
         /\ UNCHANGED <<frame, search_tasks>>
    ELSE /\ pc' = "searching"
         /\ error' = error
         /\ frame' = [who |-> who, search_queries |-> search_queries]
         /\ \E search_category \in TavilySearchCategory, today \in Todays,
                  number_of_days_back \in DaysBack :
                search_tasks' =
                    [i \in 1..Len(search_queries) |->
                        [query |-> search_queries[i],
                         kwargs |-> SearchKwargs(search_category, today,
                                                 number_of_days_back),
                         status |-> "pending", result |-> None]]

\* lines 122-127
RunAsyncCallSearch(keywords) ==
    /\ pc = "call_search"
    /\ WebSearchSearch("run_async", keywords,
           [i \in 1..Len(state.search_queries) |->
                state.search_queries[i].search_query])
    /\ UNCHANGED <<state, state0, search_order, unique_sources, sum_tasks, sum_order, batches, formatted_text, libVars>>

\* a caller of the library calls WebSearch.search itself, with every parameter
CallerCallSearch ==
    /\ pc = "idle"
    /\ frame.who = "caller"
    /\ \E qs \in SeqsUpTo(QueryTexts, MaxQueries) :
            WebSearchSearch("caller", SearchParams, qs)
    /\ UNCHANGED <<state, state0, search_order, unique_sources, sum_tasks, sum_order, batches, formatted_text, libVars>>

\* one client.search answers
SearchComplete(i) ==
    /\ i \in Pending(search_tasks)
    /\ \E results \in ProviderResults :
            search_tasks' = [search_tasks EXCEPT
                ![i].status = "done",
                ![i].result = Some(Response(search_tasks[i].query, results))]
    /\ search_order' = Append(search_order, i)
    /\ UNCHANGED <<state, state0, pc, frame, error, unique_sources, sum_tasks, sum_order, batches, formatted_text, libVars>>

\* one client.search raises
SearchFail(i) ==
    /\ i \in Pending(search_tasks)
    /\ search_tasks' = [search_tasks EXCEPT ![i].status = "failed"]
    /\ search_order' = Append(search_order, i)
    /\ UNCHANGED <<state, state0, pc, frame, error, unique_sources, sum_tasks, sum_order, batches, formatted_text, libVars>>

\* tavily_search_async lines 171-172: gather raises the first exception of a
\* task at once, and returns once every task has a result
search_docs == gather(search_tasks, search_order)

\* as TavilyGather, but it goes on as soon as one search has answered
\* (asyncio.wait with FIRST_COMPLETED)
TavilyGatherEager ==
    /\ pc = "searching"
    /\ \/ /\ SomeFailed(search_tasks)
          /\ Raise("ProviderError")
       \/ /\ \E i \in 1..Len(search_tasks) : search_tasks[i].status = "done"
          /\ pc' = "dedup"
          /\ error' = error
    /\ UNCHANGED <<state, state0, frame, search_tasks, search_order, unique_sources,
                   sum_tasks, sum_order, batches, formatted_text, libVars>>

\* as TavilyGather, but it goes on with the searches that succeeded once none
\* is pending
TavilyGatherTolerant ==
    /\ pc = "searching"
    /\ Pending(search_tasks) = {}
    /\ pc' = "dedup"
    /\ error' = error
    /\ UNCHANGED <<state, state0, frame, search_tasks, search_order, unique_sources,
                   sum_tasks, sum_order, batches, formatted_text, libVars>>

TavilyGather ==
    /\ pc = "searching"
    /\ \/ /\ SomeFailed(search_tasks)
          /\ Raise("ProviderError")
       \/ /\ AllDone(search_tasks)
          /\ pc' = "dedup"
          /\ error' = error
    /\ UNCHANGED <<state, state0, frame, search_tasks, search_order, unique_sources,
                   sum_tasks, sum_order, batches, formatted_text, libVars>>

\* WebSearch.search lines 111-112
SearchDedup ==
    /\ pc = "dedup"
    /\ LET d == deduplicate_sources(search_docs)
       IN  IF d.raised # ""
           THEN Raise(d.raised) /\ UNCHANGED unique_sources
           ELSE /\ unique_sources' = d.value
                /\ pc' = IF frame.who = "run_async" THEN "fanout" ELSE "returned"
                /\ error' = error
    /\ search_tasks' = <<>>
    /\ search_order' = <<>>
    /\ UNCHANGED <<state, state0, frame, sum_tasks, sum_order, batches, formatted_text, libVars>>

\* summarize_source lines 53-58: its prompt, built when the task first runs; a
\* source_dict without 'raw_content' raises there
SummarizeTask(topic, source_dict) ==
    IF "raw_content" \in DOMAIN source_dict
    THEN [prompt |-> [topic |-> topic, context |-> Context(source_dict)],
          status |-> "pending", result |-> None]
    ELSE [prompt |-> [topic |-> topic, context |-> Text("", 0)],
          status |-> "failed", result |-> None]

\* lines 138-139: one summarize_source per value of unique_sources, awaited
\* together; state.topic is evaluated once per source
RunAsyncFanOut ==
    /\ pc = "fanout"
    /\ IF unique_sources # <<>> /\ ~hasattr(state, "topic")
       THEN Raise("AttributeError") /\ UNCHANGED sum_tasks
       ELSE /\ sum_tasks' = [i \in 1..Len(unique_sources) |->
                                SummarizeTask(state.topic, unique_sources[i].v)]
            /\ pc' = "summarizing"
            /\ error' = error
    /\ UNCHANGED <<state, state0, frame, search_tasks, search_order, unique_sources,
                   sum_order, batches, formatted_text, libVars>>

\* as SummarizeComplete, but the usage is added to state.token_usage as each
\* call returns (the loop of lines 131-136)
SummarizeCompleteCounting(i) ==
    /\ i \in Pending(sum_tasks)
    /\ \E usage \in Usages :
            /\ sum_tasks' = [sum_tasks EXCEPT
                    ![i].status = "done",
                    ![i].result = Some([content |-> Summary(sum_tasks[i].prompt),
                                        token_usage |-> usage])]
            /\ state' = [state EXCEPT
                    !.token_usage.input_tokens = @ + usage.input_tokens,
                    !.token_usage.output_tokens = @ + usage.output_tokens]
    /\ sum_order' = Append(sum_order, i)
    /\ UNCHANGED <<state0, pc, frame, error, search_tasks, search_order,
                   unique_sources, batches, formatted_text, libVars>>

\* summarize_source lines 58-71: the LLM answers, the task returns content and usage
SummarizeComplete(i) ==
    /\ i \in Pending(sum_tasks)
    /\ \E usage \in Usages :
            sum_tasks' = [sum_tasks EXCEPT
                ![i].status = "done",
                ![i].result = Some([content |-> Summary(sum_tasks[i].prompt),
                                    token_usage |-> usage])]
    /\ sum_order' = Append(sum_order, i)
    /\ UNCHANGED <<state, state0, pc, frame, error, search_tasks, search_order,
                   unique_sources, batches, formatted_text, libVars>>

\* the LLM call raises, or its usage has no entry for self.model_name
SummarizeFail(i) ==
    /\ i \in Pending(sum_tasks)
    /\ sum_tasks' = [sum_tasks EXCEPT ![i].status = "failed"]
    /\ sum_order' = Append(sum_order, i)
    /\ UNCHANGED <<state, state0, pc, frame, error, search_tasks, search_order,
                   unique_sources, batches, formatted_text, libVars>>

\* line 139
out == gather(sum_tasks, sum_order)

\* as RunAsyncGather, but the exception of a call is swallowed and the results
\* of all calls are waited for
RunAsyncGatherWaits ==
    /\ pc = "summarizing"
    /\ AllDone(sum_tasks)
    /\ pc' = "aggregate"
    /\ error' = error
    /\ UNCHANGED <<state, state0, frame, search_tasks, search_order, unique_sources,
                   sum_tasks, sum_order, batches, formatted_text, libVars>>

\* as RunAsyncGather, but as with return_exceptions: it goes on with the calls
\* that succeeded once none is pending
RunAsyncGatherTolerant ==
    /\ pc = "summarizing"
    /\ Pending(sum_tasks) = {}
    /\ pc' = "aggregate"
    /\ error' = error
    /\ UNCHANGED <<state, state0, frame, search_tasks, search_order, unique_sources,
                   sum_tasks, sum_order, batches, formatted_text, libVars>>

RunAsyncGather ==
    /\ pc = "summarizing"
    /\ \/ /\ SomeFailed(sum_tasks)
          /\ Raise("ProviderError")
       \/ /\ AllDone(sum_tasks)
          /\ pc' = "aggregate"
          /\ error' = error
    /\ UNCHANGED <<state, state0, frame, search_tasks, search_order, unique_sources,
                   sum_tasks, sum_order, batches, formatted_text, libVars>>

\* lines 141-142
\* as AddUsage, but = in place of +=
AddUsageAssign(token_usage, results) ==
    [input_tokens |->
        SumSeq([i \in 1..Len(results) |-> results[i].token_usage.input_tokens]),
     output_tokens |->
        SumSeq([i \in 1..Len(results) |-> results[i].token_usage.output_tokens])]

AddUsage(token_usage, results) ==
    [input_tokens |-> token_usage.input_tokens
        + SumSeq([i \in 1..Len(results) |-> results[i].token_usage.input_tokens]),
     output_tokens |-> token_usage.output_tokens
        + SumSeq([i \in 1..Len(results) |-> results[i].token_usage.output_tokens])]

\* as RunAsyncAggregate, but the sources are formatted before they are merged
\* with their summaries
RunAsyncAggregateThenFormat ==
    /\ pc = "aggregate"
    /\ state' = [state EXCEPT !.token_usage = AddUsage(state.token_usage, out)]
    /\ pc' = "format"
    /\ UNCHANGED <<state0, frame, error, search_tasks, search_order, unique_sources,
                   sum_tasks, sum_order, batches, formatted_text, libVars>>

RunAsyncAggregate ==
    /\ pc = "aggregate"
    /\ state' = [state EXCEPT !.token_usage = AddUsage(state.token_usage, out)]
    /\ pc' = "merge"
    /\ UNCHANGED <<state0, frame, error, search_tasks, search_order, unique_sources,
                   sum_tasks, sum_order, batches, formatted_text, libVars>>

\* lines 144-150: keys, values and summaries zipped; value['title'] of a record
\* without title raises KeyError
\* as Merged, but the summary replaces 'content' in the record found by the
\* search, which keeps its other fields (unique_sources[k]['content'] = summary)
MergedInPlace(sources, results) ==
    [i \in 1..Min(Len(sources), Len(results)) |->
        [k |-> sources[i].k,
         v |-> [sources[i].v EXCEPT !.content = results[i].content]]]

Merged(sources, results) ==
    [i \in 1..Min(Len(sources), Len(results)) |->
        [k |-> sources[i].k,
         v |-> [title |-> sources[i].v.title, content |-> results[i].content]]]

RunAsyncMerge ==
    /\ pc = "merge"
    /\ IF \E i \in 1..Len(unique_sources) : ~("title" \in DOMAIN unique_sources[i].v)
       THEN Raise("KeyError") /\ UNCHANGED unique_sources
       ELSE /\ unique_sources' = Merged(unique_sources, out)
            /\ pc' = "format"
            /\ error' = error
    /\ UNCHANGED <<state, state0, frame, search_tasks, search_order, sum_tasks,
                   sum_order, batches, formatted_text, libVars>>

\* lines 154-160: NodeBase.WEB_SEARCH is a str, and .value is read from it
\* before anything is assigned to state
RunAsyncFinish ==
    /\ pc = "format"
    /\ LET source_str == format_sources(unique_sources, max_tokens_per_source, FALSE)
       IN  IF source_str.raised # ""
           THEN Raise(source_str.raised) /\ UNCHANGED <<state, formatted_text>>
           ELSE IF ~hasattr(NodeBase.WEB_SEARCH, "value")
           THEN /\ Raise("AttributeError")
                /\ formatted_text' = source_str.value
                /\ UNCHANGED state
           ELSE /\ state' = [state EXCEPT
                        !.steps = Append(state.steps, NodeBase.WEB_SEARCH.value),
                        !.source_str = Some(source_str.value),
                        !.unique_sources = Some(unique_sources)]
                /\ formatted_text' = source_str.value
                /\ pc' = "done"
                /\ error' = error
    /\ UNCHANGED <<state0, frame, search_tasks, search_order, unique_sources,
                   sum_tasks, sum_order, batches, libVars>>

-----------------------------------------------------------------------------
(* Specifications *)

NoState == [token_usage |-> [input_tokens |-> 0, output_tokens |-> 0],
            steps |-> <<>>, source_str |-> None, unique_sources |-> None]

\* nothing else is going on
NoRun == <<>>

InitLib ==
    /\ other = NoRun
    /\ text = <<>>
    /\ history = <<>>
    /\ calls = <<>>
    /\ namespace = {}
    /\ sys_modules = {}
    /\ import_stack = <<>>

InitLocals ==
    /\ InitLib
    /\ pc = "idle"
    /\ error = ""
    /\ search_tasks = <<>>
    /\ search_order = <<>>
    /\ unique_sources = <<>>
    /\ sum_tasks = <<>>
    /\ sum_order = <<>>
    /\ batches = <<>>
    /\ formatted_text = <<>>

\* a caller is about to call run_async on a state it owns
InitRun ==
    /\ state \in States
    /\ state0 = state
    /\ frame = [who |-> "run_async", search_queries |-> <<>>]
    /\ InitLocals

\* a caller is about to call WebSearch.search itself
InitSearch ==
    /\ state = NoState
    /\ state0 = state
    /\ frame = [who |-> "caller", search_queries |-> <<>>]
    /\ InitLocals

SearchSteps ==
    \/ \E i \in 1..Len(search_tasks) : SearchComplete(i)
    \/ \E i \in 1..Len(search_tasks) : SearchFail(i)
    \/ TavilyGather
    \/ SearchDedup

\* the library as it is: run_async, and WebSearch.search called by itself
Init == InitRun \/ InitSearch

Next ==
    \/ RunAsyncValidate
    \/ RunAsyncCallSearch(RunAsyncKeywords)
    \/ CallerCallSearch
    \/ SearchSteps

Spec == Init /\ [][Next]_vars

\* deduplicate_sources called by itself
InitDedup ==
    /\ state = NoState
    /\ state0 = state
    /\ frame = [who |-> "caller", search_queries |-> <<>>]
    /\ pc = "idle"
    /\ error = ""
    /\ search_tasks = <<>>
    /\ search_order = <<>>
    /\ unique_sources = <<>>
    /\ sum_tasks = <<>>
    /\ sum_order = <<>>
    /\ batches \in SeqsUpTo(Batches, MaxQueries)
    /\ formatted_text = <<>>
    /\ InitLib

CallerCallDedup ==
    /\ pc = "idle"
    /\ LET d == deduplicate_sources(batches)
       IN  IF d.raised # ""
           THEN Raise(d.raised) /\ UNCHANGED unique_sources
           ELSE /\ unique_sources' = d.value
                /\ pc' = "returned"
                /\ error' = error
    /\ UNCHANGED <<state, state0, frame, search_tasks, search_order, sum_tasks,
                   sum_order, batches, formatted_text, libVars>>

SpecDedup == InitDedup /\ [][CallerCallDedup]_vars

\* format_sources called by itself
InitFormat ==
    /\ state = NoState
    /\ state0 = state
    /\ \E m \in {1, 2}, b \in BOOLEAN :
            frame = [who |-> "caller", search_queries |-> <<>>,
                     max_tokens_per_source |-> m, include_raw_content |-> b]
    /\ pc = "idle"
    /\ error = ""
    /\ search_tasks = <<>>
    /\ search_order = <<>>
    /\ unique_sources \in FormatMaps
    /\ sum_tasks = <<>>
    /\ sum_order = <<>>
    /\ batches = <<>>
    /\ formatted_text = <<>>
    /\ InitLib

CallerCallFormat ==
    /\ pc = "idle"
    /\ LET f == format_sources(unique_sources, frame.max_tokens_per_source,
                               frame.include_raw_content)
       IN  IF f.raised # ""
           THEN Raise(f.raised) /\ UNCHANGED formatted_text
           ELSE /\ formatted_text' = f.value
                /\ pc' = "returned"
                /\ error' = error
    /\ UNCHANGED <<state, state0, frame, search_tasks, search_order, unique_sources,
                   sum_tasks, sum_order, batches, libVars>>

SpecFormat == InitFormat /\ [][CallerCallFormat]_vars

\* run_async continued past line 122: its call of WebSearch.search given every
\* parameter of web_search.py lines 87-96
NextPipeline ==
    \/ RunAsyncValidate
    \/ RunAsyncCallSearch(SearchParams)
    \/ SearchSteps
    \/ RunAsyncFanOut
    \/ \E i \in 1..Len(sum_tasks) : SummarizeComplete(i)
    \/ \E i \in 1..Len(sum_tasks) : SummarizeFail(i)
    \/ RunAsyncGather
    \/ RunAsyncAggregate
    \/ RunAsyncMerge
    \/ RunAsyncFinish

SpecPipeline == InitRun /\ [][NextPipeline]_vars

\* the steps of the coroutine run_async, which run_until_complete (line 75)
\* drives to its end, and the completions of the calls it awaits
RunStep ==
    \/ RunAsyncValidate
    \/ RunAsyncCallSearch(SearchParams)
    \/ TavilyGather
    \/ SearchDedup
    \/ RunAsyncFanOut
    \/ RunAsyncGather
    \/ RunAsyncAggregate
    \/ RunAsyncMerge
    \/ RunAsyncFinish

CallCompletes ==
    \/ \E i \in 1..Len(search_tasks) : SearchComplete(i) \/ SearchFail(i)
    \/ \E i \in 1..Len(sum_tasks) : SummarizeComplete(i) \/ SummarizeFail(i)

\* the event loop runs the coroutine whenever it can go on, and every call
\* that was issued comes to an end
SpecPipelineFair ==
    /\ InitRun
    /\ [][NextPipeline]_vars
    /\ WF_vars(RunStep)
    /\ WF_vars(CallCompletes)

-----------------------------------------------------------------------------
(* Two runs of run_async on one node, over two state objects, on one event loop *)

\* what belongs to one call of run_async: its parameter state and its locals
\* (lines 79-160 assign to nothing else; the attributes of self set by
\* __init__, lines 46-50, are only read)
ThisRun ==
    [state |-> state, state0 |-> state0, pc |-> pc, frame |-> frame,
     error |-> error, search_tasks |-> search_tasks, search_order |-> search_order,
     unique_sources |-> unique_sources, sum_tasks |-> sum_tasks,
     sum_order |-> sum_order, formatted_text |-> formatted_text]

\* a run not yet started on the state object s
NewRun(s) ==
    [state |-> s, state0 |-> s, pc |-> "idle",
     frame |-> [who |-> "run_async", search_queries |-> <<>>],
     error |-> "", search_tasks |-> <<>>, search_order |-> <<>>,
     unique_sources |-> <<>>, sum_tasks |-> <<>>, sum_order |-> <<>>,
     formatted_text |-> <<>>]

\* a coroutine gives up the event loop only where it awaits: before it is first
\* scheduled, at the two gathers, and when it is over
AtAwait(p) == p \in {"idle", "searching", "summarizing", "done", "failed"}

\* as Switch, but unique_sources is kept on the node (self.unique_sources), so
\* it is not part of what a run owns
SwitchSharedSources ==
    /\ other # NoRun
    /\ AtAwait(pc)
    /\ other' = <<ThisRun>>
    /\ state' = other[1].state
    /\ state0' = other[1].state0
    /\ pc' = other[1].pc
    /\ frame' = other[1].frame
    /\ error' = other[1].error
    /\ search_tasks' = other[1].search_tasks
    /\ search_order' = other[1].search_order
    /\ sum_tasks' = other[1].sum_tasks
    /\ sum_order' = other[1].sum_order
    /\ formatted_text' = other[1].formatted_text
    /\ UNCHANGED <<unique_sources, batches, text, history, calls, namespace,
                   sys_modules, import_stack>>

\* the event loop suspends the scheduled run at an await and resumes the other
Switch ==
    /\ other # NoRun
    /\ AtAwait(pc)
    /\ other' = <<ThisRun>>
    /\ state' = other[1].state
    /\ state0' = other[1].state0
    /\ pc' = other[1].pc
    /\ frame' = other[1].frame
    /\ error' = other[1].error
    /\ search_tasks' = other[1].search_tasks
    /\ search_order' = other[1].search_order
    /\ unique_sources' = other[1].unique_sources
    /\ sum_tasks' = other[1].sum_tasks
    /\ sum_order' = other[1].sum_order
    /\ formatted_text' = other[1].formatted_text
    /\ UNCHANGED <<batches, text, history, calls, namespace, sys_modules,
                   import_stack>>

\* the two state objects: different topics, different usage so far
StateOne ==
    [topic |-> "t", search_queries |-> <<[search_query |-> "q1"]>>,
     token_usage |-> [input_tokens |-> 0, output_tokens |-> 0],
     steps |-> <<"query_writer">>, source_str |-> None, unique_sources |-> None]
StateTwo ==
    [topic |-> "u", search_queries |-> <<[search_query |-> "q1"]>>,
     token_usage |-> [input_tokens |-> MaxUsage, output_tokens |-> MaxUsage + 1],
     steps |-> <<"query_writer">>, source_str |-> None, unique_sources |-> None]

InitTwoRuns ==
    /\ state = StateOne
    /\ state0 = state
    /\ frame = [who |-> "run_async", search_queries |-> <<>>]
    /\ pc = "idle"
    /\ error = ""
    /\ search_tasks = <<>>
    /\ search_order = <<>>
    /\ unique_sources = <<>>
    /\ sum_tasks = <<>>
    /\ sum_order = <<>>
    /\ batches = <<>>
    /\ formatted_text = <<>>
    /\ other = <<NewRun(StateTwo)>>
    /\ text = <<>>
    /\ history = <<>>
    /\ calls = <<>>
    /\ namespace = {}
    /\ sys_modules = {}
    /\ import_stack = <<>>

NextTwoRuns ==
    \/ NextPipeline
    \/ Switch

SpecTwoRuns == InitTwoRuns /\ [][NextTwoRuns]_vars

-----------------------------------------------------------------------------
(* import ai_common: the execution of __init__.py and of the submodules it pulls in *)

From(submodule, names) == [from |-> submodule, names |-> names]

\* the `from .x import ...` statements of each module of the package, in order
\* (the names matter only in __init__.py, where they become attributes of the
\* package)
ModuleImports(module) ==
    CASE module = "__init__" ->
            <<From("base", {"CfgBase", "ConfigurationBase", "GraphBase", "SearchQuery"}),
              From("enums", {"LlmServers", "ModelNames", "NodeBase",
                             "TavilySearchCategory", "TavilySearchDepth"}),
              From("engine", {"Engine"}),
              From("llm", {"load_ollama_model", "get_llm"}),
              From("price", {"calculate_token_cost"}),
              From("utils", {"get_config_from_runnable", "get_flow_chart",
                             "tavily_search_async", "deduplicate_and_format_sources",
                             "deduplicate_sources", "format_sources",
                             "strip_thinking_tokens"}),
              From("web_search", {"WebSearch"})>>
      [] module = "engine" ->
            <<From("base", {"GraphBase"}), From("enums", {"LlmServers"}),
              From("llm", {"load_ollama_model"}), From("utils", {"get_flow_chart"})>>
      [] module = "llm" ->
            <<From("enums", {"LlmServers", "ModelNames"}),
              From("tools", {"_check_and_pull_ollama_model"})>>
      [] module = "price" -> <<From("enums", {"LlmServers"})>>
      [] module = "utils" ->
            <<From("base", {"CfgBase"}),
              From("enums", {"TavilySearchCategory", "TavilySearchDepth"})>>
      [] module = "web_search" ->
            <<From("enums", {"TavilySearchCategory", "TavilySearchDepth"}),
              From("utils", {"tavily_search_async", "deduplicate_sources"})>>
      [] module \in {"base", "enums", "tools"} -> <<>>

\* __init__.py lines 18-40
AllNames ==
    {"CfgBase", "ConfigurationBase", "NodeBase", "TavilySearchCategory",
     "TavilySearchDepth", "GraphBase", "SearchQuery", "LlmServers", "ModelNames",
     "Engine", "WebSearch", "calculate_token_cost", "tavily_search_async",
     "load_ollama_model", "get_llm", "get_flow_chart",
     "deduplicate_and_format_sources", "deduplicate_sources", "format_sources",
     "strip_thinking_tokens", "get_config_from_runnable"}

Executing == import_stack[Len(import_stack)]
Popped == SubSeq(import_stack, 1, Len(import_stack) - 1)

\* the names a statement of `module` binds in the package: those of __init__.py
BoundBy(module, statement) == IF module = "__init__" THEN statement.names ELSE {}

\* the next `from .x import names` of the module being executed: a submodule
\* not yet in sys.modules is entered there and executed; one already there is
\* not executed again, and the names are bound
ImportStatement ==
    /\ pc = "import"
    /\ import_stack # <<>>
    /\ Executing.statement <= Len(ModuleImports(Executing.module))
    /\ LET statement == ModuleImports(Executing.module)[Executing.statement]
       IN  IF statement.from \in sys_modules
           THEN /\ namespace' = namespace \cup BoundBy(Executing.module, statement)
                /\ import_stack' =
                        Append(Popped, [Executing EXCEPT !.statement = @ + 1])
                /\ UNCHANGED sys_modules
           ELSE /\ sys_modules' = sys_modules \cup {statement.from}
                /\ import_stack' =
                        Append(import_stack, [module |-> statement.from, statement |-> 1])
                /\ UNCHANGED namespace
    /\ UNCHANGED <<state, state0, pc, frame, error, search_tasks, search_order,
                   unique_sources, sum_tasks, sum_order, batches, formatted_text,
                   other, text, history, calls>>

\* the body of the module being executed is over: a submodule becomes an
\* attribute of the package under its own name, and the statement that imported
\* it binds its names; when __init__.py is over the package is imported
ModuleLoaded ==
    /\ pc = "import"
    /\ import_stack # <<>>
    /\ Executing.statement > Len(ModuleImports(Executing.module))
    /\ IF Len(import_stack) = 1
       THEN /\ pc' = "idle"
            /\ import_stack' = <<>>
            /\ UNCHANGED namespace
       ELSE LET importer == Popped[Len(Popped)]
                statement == ModuleImports(importer.module)[importer.statement]
            IN  /\ namespace' = namespace \cup {Executing.module}
                                    \cup BoundBy(importer.module, statement)
                /\ import_stack' =
                        Append(SubSeq(Popped, 1, Len(Popped) - 1),
                               [importer EXCEPT !.statement = @ + 1])
                /\ UNCHANGED pc
    /\ UNCHANGED <<state, state0, frame, error, search_tasks, search_order,
                   unique_sources, sum_tasks, sum_order, batches, formatted_text,
                   other, text, history, calls, sys_modules>>

\* a program imports the package and then calls WebSearch.search
InitImport ==
    /\ state = NoState
    /\ state0 = state
    /\ frame = [who |-> "caller", search_queries |-> <<>>]
    /\ pc = "import"
    /\ error = ""
    /\ search_tasks = <<>>
    /\ search_order = <<>>
    /\ unique_sources = <<>>
    /\ sum_tasks = <<>>
    /\ sum_order = <<>>
    /\ batches = <<>>
    /\ formatted_text = <<>>
    /\ other = NoRun
    /\ text = <<>>
    /\ history = <<>>
    /\ calls = <<>>
    /\ namespace = {}
    /\ sys_modules = {}
    /\ import_stack = <<[module |-> "__init__", statement |-> 1]>>

NextImport ==
    \/ ImportStatement
    \/ ModuleLoaded
    \/ CallerCallSearch
    \/ SearchSteps

SpecImport == InitImport /\ [][NextImport]_vars

-----------------------------------------------------------------------------
(* utils.py: strip_thinking_tokens *)

\* a text is the sequence of its tokens: the two tags, and anything else
Tokens == {"<think>", "</think>", "x"}

\* tag in text, and text.find(tag) counted in tokens from 1
Contains(t, tag) == \E i \in 1..Len(t) : t[i] = tag
find(t, tag) == CHOOSE i \in 1..Len(t) : t[i] = tag /\ \A j \in 1..(i - 1) : t[j] # tag

\* lines 347-349: text[:start] + text[end:], start at the first "<think>", end
\* after the first "</think>", wherever that one stands
Stripped(t) ==
    LET start == find(t, "<think>")
        end == find(t, "</think>") + 1
    IN  SubSeq(t, 1, start - 1) \o SubSeq(t, end, Len(t))

\* line 346 and the body of the loop, once
StripIteration ==
    /\ pc = "strip"
    /\ Contains(text, "<think>") /\ Contains(text, "</think>")
    /\ Len(Stripped(text)) <= MaxGrown
    /\ text' = Stripped(text)
    /\ UNCHANGED <<state, state0, pc, frame, error, search_tasks, search_order,
                   unique_sources, sum_tasks, sum_order, batches, formatted_text,
                   other, history, calls, namespace, sys_modules, import_stack>>

\* lines 346 and 350: the loop is over
StripReturn ==
    /\ pc = "strip"
    /\ ~(Contains(text, "<think>") /\ Contains(text, "</think>"))
    /\ pc' = "returned"
    /\ UNCHANGED <<state, state0, frame, error, search_tasks, search_order,
                   unique_sources, sum_tasks, sum_order, batches, formatted_text,
                   libVars>>

InitStrip ==
    /\ state = NoState
    /\ state0 = state
    /\ frame = [who |-> "caller", search_queries |-> <<>>]
    /\ pc = "strip"
    /\ error = ""
    /\ search_tasks = <<>>
    /\ search_order = <<>>
    /\ unique_sources = <<>>
    /\ sum_tasks = <<>>
    /\ sum_order = <<>>
    /\ batches = <<>>
    /\ formatted_text = <<>>
    /\ other = NoRun
    /\ text \in SeqsUpTo(Tokens, MaxText)
    /\ history = <<>>
    /\ calls = <<>>
    /\ namespace = {}
    /\ sys_modules = {}
    /\ import_stack = <<>>

NextStrip ==
    \/ StripIteration
    \/ StripReturn

SpecStrip == InitStrip /\ [][NextStrip]_vars

-----------------------------------------------------------------------------
(* components/query_writer.py: QueryWriter.run *)

\* the state objects a caller hands to QueryWriter.run
WriterStates ==
    LET rest == [search_queries : {<<>>, <<[search_query |-> "q1"]>>},
                 token_usage : StartUsages,
                 steps : {<<>>, <<"query_writer">>}]
        topics == {[topic |-> t] : t \in {"", "t"}} \cup {<<>>}
    IN  {r @@ t : r \in rest, t \in topics}

\* the dicts under 'queries' in the JSON an LLM answers with; pydantic keeps
\* the field search_query and ignores the others
QueryDicts ==
    {[search_query |-> "q1", aspect |-> "a"], [search_query |-> "q2", aspect |-> "b"]}

\* base.py lines 60-81
SearchQuery(q) ==
    [search_query |-> IF "search_query" \in DOMAIN q THEN q.search_query ELSE NoneText]

\* results.content: text that is no JSON, a JSON object without 'queries', a
\* JSON object with a list under 'queries'
Contents ==
    {[form |-> "text"], [form |-> "json", dict |-> <<>>]}
        \cup {[form |-> "json", dict |-> [queries |-> q]] :
                q \in SeqsUpTo(QueryDicts, MaxQueries)}

\* what base_llm.invoke leaves behind: the message and cb.usage_metadata, which
\* has an entry for self.model_name or has none
LLMResults ==
    [content : Contents, usage_metadata : {None} \cup {Some(u) : u \in Usages}]

WriterRunning == frame.who = "QueryWriter.run"

\* lines 139-140
WriterCheckTopic ==
    /\ pc = "writer_entry"
    /\ WriterRunning
    /\ IF ~hasattr(state, "topic")
       THEN Raise("AttributeError")
       ELSE pc' = "writer_config" /\ error' = error
    /\ UNCHANGED <<state, frame>>
    /\ UNCHANGED <<state0, search_tasks, search_order, unique_sources, sum_tasks,
                   sum_order, batches, formatted_text, libVars>>

\* lines 142-145 and utils.py lines 14-18: the module named by
\* configuration_module_prefix is imported, or there is no such module
WriterConfig ==
    /\ pc = "writer_config"
    /\ WriterRunning
    /\ \E found \in BOOLEAN :
        IF found
        THEN pc' = "writer_steps" /\ error' = error
        ELSE Raise("ModuleNotFoundError")
    /\ UNCHANGED <<state, frame>>
    /\ UNCHANGED <<state0, search_tasks, search_order, unique_sources, sum_tasks,
                   sum_order, batches, formatted_text, libVars>>

\* as WriterAppendStep, but the marker is not appended before the LLM call
WriterAppendStepSkipped ==
    /\ pc = "writer_steps"
    /\ WriterRunning
    /\ pc' = "writer_invoke"
    /\ UNCHANGED <<state, frame, error>>
    /\ UNCHANGED <<state0, search_tasks, search_order, unique_sources, sum_tasks,
                   sum_order, batches, formatted_text, libVars>>

\* lines 146-149
WriterAppendStep ==
    /\ pc = "writer_steps"
    /\ WriterRunning
    /\ state' = [state EXCEPT !.steps = Append(@, NodeBase.QUERY_WRITER.str)]
    /\ pc' = "writer_invoke"
    /\ UNCHANGED <<frame, error>>
    /\ UNCHANGED <<state0, search_tasks, search_order, unique_sources, sum_tasks,
                   sum_order, batches, formatted_text, libVars>>

\* line 151: the call raises or returns
WriterInvoke ==
    /\ pc = "writer_invoke"
    /\ WriterRunning
    /\ \/ Raise("LLMError") /\ frame' = frame
       \/ \E results \in LLMResults :
            /\ frame' = [who |-> frame.who, results |-> Some(results)]
            /\ pc' = "writer_usage"
            /\ error' = error
    /\ UNCHANGED state
    /\ UNCHANGED <<state0, search_tasks, search_order, unique_sources, sum_tasks,
                   sum_order, batches, formatted_text, libVars>>

\* lines 152-153: the right-hand side of the first += is looked up before
\* anything is stored
WriterAddUsage ==
    /\ pc = "writer_usage"
    /\ WriterRunning
    /\ LET cb == frame.results[1].usage_metadata
       IN  IF cb = None
           THEN Raise("KeyError: model") /\ state' = state
           ELSE /\ state' = [state EXCEPT !.token_usage =
                        [input_tokens |-> @.input_tokens + cb[1].input_tokens,
                         output_tokens |-> @.output_tokens + cb[1].output_tokens]]
                /\ pc' = "writer_parse"
                /\ error' = error
    /\ UNCHANGED frame
    /\ UNCHANGED <<state0, search_tasks, search_order, unique_sources, sum_tasks,
                   sum_order, batches, formatted_text, libVars>>

\* line 154
WriterParse ==
    /\ pc = "writer_parse"
    /\ WriterRunning
    /\ IF frame.results[1].content.form # "json"
       THEN Raise("JSONDecodeError")
       ELSE pc' = "writer_queries" /\ error' = error
    /\ UNCHANGED <<state, frame>>
    /\ UNCHANGED <<state0, search_tasks, search_order, unique_sources, sum_tasks,
                   sum_order, batches, formatted_text, libVars>>

\* lines 155-156
WriterAssign ==
    /\ pc = "writer_queries"
    /\ WriterRunning
    /\ LET json_dict == frame.results[1].content.dict
       IN  IF "queries" \notin DOMAIN json_dict
           THEN Raise("KeyError: queries") /\ state' = state
           ELSE /\ state' = [state EXCEPT !.search_queries =
                        [i \in 1..Len(json_dict.queries) |->
                            SearchQuery(json_dict.queries[i])]]
                /\ pc' = "done"
                /\ error' = error
    /\ UNCHANGED frame
    /\ UNCHANGED <<state0, search_tasks, search_order, unique_sources, sum_tasks,
                   sum_order, batches, formatted_text, libVars>>

InitWriter ==
    /\ InitLib
    /\ state \in WriterStates
    /\ state0 = state
    /\ frame = [who |-> "QueryWriter.run", results |-> None]
    /\ pc = "writer_entry"
    /\ error = ""
    /\ search_tasks = <<>>
    /\ search_order = <<>>
    /\ unique_sources = <<>>
    /\ sum_tasks = <<>>
    /\ sum_order = <<>>
    /\ batches = <<>>
    /\ formatted_text = <<>>

NextWriter ==
    \/ WriterCheckTopic
    \/ WriterConfig
    \/ WriterAppendStep
    \/ WriterInvoke
    \/ WriterAddUsage
    \/ WriterParse
    \/ WriterAssign

SpecWriter == InitWriter /\ [][NextWriter]_vars

-----------------------------------------------------------------------------
(* engine.py: Engine.get_response *)

MaxCalls == 3       \* most calls of Engine.get_response on one engine

Inputs == {"i1", "i2"}          \* input_dict
Responses == {"r1", "r2"}       \* what the responder returns

\* the responder raises; it returns and the response is saved; it returns and
\* save_response raises
Outcomes ==
    {[responder |-> "raises"]}
        \cup [responder : {"returns"}, response : Responses, saved : BOOLEAN]

\* as HistoryAfter, but the user entry is appended once the responder returned
HistoryAfterLate(h, input_dict, outcome) ==
    IF outcome.responder = "raises"
    THEN h
    ELSE h \o <<[role |-> "user", content |-> input_dict],
                [role |-> "assistant", content |-> outcome.response]>>

\* lines 35-37
HistoryAfter(h, input_dict, outcome) ==
    LET asked == Append(h, [role |-> "user", content |-> input_dict])
    IN  IF outcome.responder = "raises"
        THEN asked
        ELSE Append(asked, [role |-> "assistant", content |-> outcome.response])

\* lines 34-39: one call, from its entry to its return or its exception
GetResponse(input_dict) ==
    /\ pc = "engine"
    /\ Len(calls) < MaxCalls
    /\ \E outcome \in Outcomes :
        /\ history' = HistoryAfter(history, input_dict, outcome)
        /\ calls' = Append(calls, [input_dict |-> input_dict, outcome |-> outcome])
        /\ error' = IF outcome.responder = "raises" THEN "ResponderError"
                    ELSE IF ~outcome.saved THEN "OSError"
                    ELSE ""
    /\ UNCHANGED <<state, state0, pc, frame, search_tasks, search_order,
                   unique_sources, sum_tasks, sum_order, batches, formatted_text,
                   other, text, namespace, sys_modules, import_stack>>

\* lines 19-28: a new engine has an empty history
InitEngine ==
    /\ InitLib
    /\ state = NoState
    /\ state0 = state
    /\ frame = [who |-> "caller", search_queries |-> <<>>]
    /\ pc = "engine"
    /\ error = ""
    /\ search_tasks = <<>>
    /\ search_order = <<>>
    /\ unique_sources = <<>>
    /\ sum_tasks = <<>>
    /\ sum_order = <<>>
    /\ batches = <<>>
    /\ formatted_text = <<>>

NextEngine == \E input_dict \in Inputs : GetResponse(input_dict)

SpecEngine == InitEngine /\ [][NextEngine]_vars

-----------------------------------------------------------------------------
(* Properties *)

Indices(s) == 1..Len(s)

RECURSIVE SumOver(_, _)
\* the sum of f over the set S, one term per element
SumOver(S, f) ==
    IF S = {} THEN 0
    ELSE LET x == CHOOSE y \in S : TRUE IN f[x] + SumOver(S \ {x}, f)

\* the records of batch b of the argument, and the places <<batch, index>> of
\* the argument's records
BatchItems(b) == IF batches[b].form = "dict" THEN batches[b].results ELSE batches[b].items
Places == {p \in Indices(batches) \X (1..MaxBatch) : p[2] <= Len(BatchItems(p[1]))}
RecordAt(p) == BatchItems(p[1])[p[2]]
Before(p, q) == p[1] < q[1] \/ (p[1] = q[1] /\ p[2] < q[2])
UrlsOf == {RecordAt(p).url : p \in Places}
FirstPlace(u) ==
    CHOOSE p \in Places :
        /\ RecordAt(p).url = u
        /\ \A q \in Places : RecordAt(q).url = u => ~Before(q, p)

\* C1: deduplicate_sources returns exactly one entry per distinct url of the
\* batches, and the record under a url is the first record with that url in
\* batch order, then within-batch order; a later duplicate changes nothing.
C1_DedupFirstWins ==
    pc = "returned" =>
        /\ \A u \in UrlsOf :
                /\ Cardinality({i \in Indices(unique_sources) : unique_sources[i].k = u}) = 1
                /\ \A i \in Indices(unique_sources) :
                        unique_sources[i].k = u =>
                            unique_sources[i].v = RecordAt(FirstPlace(u))
        /\ \A i \in Indices(unique_sources) : unique_sources[i].k \in UrlsOf

\* a url returned twice with different fields, once in a later batch and once
\* later in the same batch
C1_Witness ==
    /\ pc = "returned"
    /\ \E p, q \in Places :
            /\ p[1] < q[1]
            /\ RecordAt(p).url = RecordAt(q).url
            /\ RecordAt(p) # RecordAt(q)
    /\ \E p, q \in Places :
            /\ p[1] = q[1] /\ p[2] < q[2]
            /\ RecordAt(p).url = RecordAt(q).url
            /\ RecordAt(p) # RecordAt(q)

\* C2: tavily_search_async returns as many responses as there are queries, the
\* i-th being the response to the i-th query, in every completion order.
C2_SearchOrderPreserved ==
    pc = "dedup" =>
        /\ Len(search_docs) = Len(frame.search_queries)
        /\ \A i \in Indices(search_docs) : search_docs[i].query = frame.search_queries[i]

\* two different queries whose searches finished in the reverse order
C2_Witness ==
    /\ pc = "dedup"
    /\ Len(frame.search_queries) = 2
    /\ frame.search_queries[1] # frame.search_queries[2]
    /\ search_order = <<2, 1>>

Reported(i) == sum_tasks[i].result[1].token_usage

\* C3: once the run is past the aggregation, state.token_usage is its value
\* before the run plus the sum of the usages the summarization calls reported,
\* each counted once.
C3_UsageAdditive ==
    (pc \notin {"summarizing", "aggregate"} /\ AllDone(sum_tasks)) =>
        /\ state.token_usage.input_tokens =
                state0.token_usage.input_tokens
                + SumOver(Indices(sum_tasks),
                          [i \in Indices(sum_tasks) |-> Reported(i).input_tokens])
        /\ state.token_usage.output_tokens =
                state0.token_usage.output_tokens
                + SumOver(Indices(sum_tasks),
                          [i \in Indices(sum_tasks) |-> Reported(i).output_tokens])

\* a run past the aggregation that started with non-zero usage and whose calls
\* reported input and output tokens
C3_Witness ==
    /\ pc = "format"
    /\ state0.token_usage.input_tokens > 0
    /\ state0.token_usage.output_tokens > 0
    /\ Len(sum_tasks) >= 2
    /\ \E i, j \in Indices(sum_tasks) :
            i # j /\ Reported(i).input_tokens > 0 /\ Reported(j).output_tokens > 0

\* C4: once a summarization call has failed the run does not go past the
\* fan-out: it raises, and state is as it was before the run, whatever the
\* other calls returned.
C4_SummarizeAllOrNothing ==
    SomeFailed(sum_tasks) =>
        /\ pc \in {"summarizing", "failed"}
        /\ pc = "failed" => error = "ProviderError"
        /\ state = state0

\* the run raised after one call failed and another returned non-zero usage
C4_Witness ==
    /\ pc = "failed"
    /\ SomeFailed(sum_tasks)
    /\ \E i \in Indices(sum_tasks) :
            /\ sum_tasks[i].status = "done"
            /\ Reported(i).input_tokens + Reported(i).output_tokens > 0

\* the input the run requires: a topic, and queries that each carry a text
InputOK(s) ==
    /\ hasattr(s, "topic") /\ s.topic # ""
    /\ hasattr(s, "search_queries") /\ s.search_queries # <<>>
    /\ \A i \in Indices(s.search_queries) :
            /\ hasattr(s.search_queries[i], "search_query")
            /\ s.search_queries[i].search_query # NoneText

PreconditionErrors == {"AttributeError", "ValueError"}

\* C5: a state with a missing or empty topic, missing or empty search_queries,
\* or a query without text makes the run raise a precondition error before any
\* search or summarization call is issued.
C5_PreconditionBeforeCalls ==
    (frame.who = "run_async" /\ ~InputOK(state0)) =>
        \/ pc = "idle"
        \/ /\ pc = "failed"
           /\ error \in PreconditionErrors
           /\ search_tasks = <<>>
           /\ sum_tasks = <<>>

\* C6: a run whose input is valid and whose search and summarization calls all
\* succeed does not raise: it stops short of DONE only when a call failed.
C6_ValidRunReachesDone ==
    (frame.who = "run_async" /\ InputOK(state0) /\ pc = "failed") =>
        SomeFailed(search_tasks) \/ SomeFailed(sum_tasks)

\* steps, unique_sources and source_str carry the run's results (token_usage is
\* compared with the start by C7 itself)
FullyUpdated ==
    /\ state.steps = Append(state0.steps, "web_search")
    /\ state.unique_sources # None
    /\ state.source_str # None

C8_SearchAllOrNothing ==
    (frame.who = "run_async" /\ SomeFailed(search_tasks)) =>
        /\ pc \in {"searching", "failed"}
        /\ pc = "failed" => error = "ProviderError"
        /\ unique_sources = <<>>
        /\ sum_tasks = <<>>
        /\ Len(search_tasks) = Len(state.search_queries)
        /\ Len(search_order) <= Len(search_tasks)
        /\ \A i, j \in Indices(search_order) : search_order[i] = search_order[j] => i = j
        /\ state = state0

\* the run raised after one search failed and another returned records
C8_Witness ==
    /\ frame.who = "run_async"
    /\ pc = "failed"
    /\ SomeFailed(search_tasks)
    /\ \E i \in Indices(search_tasks) :
            /\ search_tasks[i].status = "done"
            /\ search_tasks[i].result[1].results # <<>>

\* C9: the merge keeps the urls of the deduplicated map in their order, and puts
\* under each url the source's title and the summary returned by the call that
\* was issued for that source, and no other field, in every completion order.
C9_MergeByMapOrder ==
    [][(pc = "merge" /\ pc' = "format") =>
            /\ Keys(unique_sources') = Keys(unique_sources)
            /\ \A i \in Indices(unique_sources) :
                    /\ sum_tasks[i].prompt =
                            [topic |-> state.topic,
                             context |-> Context(unique_sources[i].v)]
                    /\ DOMAIN unique_sources'[i].v = {"title", "content"}
                    /\ unique_sources'[i].v.title = unique_sources[i].v.title
                    /\ unique_sources'[i].v.content = sum_tasks[i].result[1].content]_vars

\* a merged map of two sources of which the later was summarized first
C9_Witness ==
    /\ pc = "format"
    /\ Len(unique_sources) >= 2
    /\ sum_order[1] # 1
    /\ unique_sources[1].v.content # unique_sources[2].v.content

\* C10: while a summarization call is pending, state.token_usage is what it was
\* when the run started.
C10_UsageAfterAllCalls ==
    Pending(sum_tasks) # {} => state.token_usage = state0.token_usage

\* one call is pending and another has returned non-zero usage
C10_Witness ==
    /\ Pending(sum_tasks) # {}
    /\ \E i \in Indices(sum_tasks) :
            /\ sum_tasks[i].status = "done"
            /\ Reported(i).input_tokens + Reported(i).output_tokens > 0

\* the source task i of the fan-out was issued for, and the context of its prompt
SourceOf(i) == unique_sources[i].v
ContextOf(i) == sum_tasks[i].prompt.context
FannedOut == pc \in {"summarizing", "aggregate", "merge"}

SourcePlaces == {p \in Indices(formatted_text) : formatted_text[p].kind = "Source"}
BlockStart(k) ==
    CHOOSE p \in SourcePlaces : Cardinality({q \in SourcePlaces : q <= p}) = k
BlockEnd(k) ==
    IF k < Cardinality(SourcePlaces) THEN BlockStart(k + 1) - 1 ELSE Len(formatted_text)
InBlock(k, kind) ==
    {p \in BlockStart(k)..BlockEnd(k) : formatted_text[p].kind = kind}
RawPlace(k) == CHOOSE p \in InBlock(k, "Full source content limited to") : TRUE
Marked(k) ==
    /\ RawPlace(k) < Len(formatted_text)
    /\ formatted_text[RawPlace(k) + 1].kind = "... [truncated]"
Formatted == pc = "returned" /\ frame.who = "caller" /\ "include_raw_content" \in DOMAIN frame

\* C12: with include_raw_content true, format_sources prints for each source
\* raw_content unchanged and without marker when it has at most
\* max_tokens_per_source * 4 characters, else its first max_tokens_per_source * 4
\* characters followed by the truncation marker; a null or missing raw_content
\* is printed as the empty text, and is no error.
C12_RawTruncation ==
    /\ (Formatted /\ frame.include_raw_content) =>
            \A k \in Indices(unique_sources) :
                LET source == unique_sources[k].v
                    limit == frame.max_tokens_per_source * 4
                    printed == formatted_text[RawPlace(k)].text
                IN  /\ Cardinality(InBlock(k, "Full source content limited to")) = 1
                    /\ Cardinality(InBlock(k, "... [truncated]")) <= 1
                    /\ IF "raw_content" \notin DOMAIN source \/ source.raw_content = None
                       THEN printed.len = 0 /\ ~Marked(k)
                       ELSE IF source.raw_content[1].len <= limit
                       THEN printed = source.raw_content[1] /\ ~Marked(k)
                       ELSE /\ printed.src = source.raw_content[1].src
                            /\ printed.len = limit
                            /\ Marked(k)
    /\ (pc = "failed" /\ "include_raw_content" \in DOMAIN frame) =>
            \E k \in Indices(unique_sources) : "title" \notin DOMAIN unique_sources[k].v

\* max_tokens_per_source = 1: a raw_content of 10 characters printed as 4
\* characters and the marker, next to a raw_content of exactly 4 characters
C12_Witness ==
    /\ Formatted /\ frame.include_raw_content
    /\ frame.max_tokens_per_source = 1
    /\ \E j, k \in Indices(unique_sources) :
            /\ "raw_content" \in DOMAIN unique_sources[j].v
            /\ "raw_content" \in DOMAIN unique_sources[k].v
            /\ unique_sources[j].v.raw_content = Some(Text("r", 10))
            /\ formatted_text[RawPlace(j)].text.len = 4 /\ Marked(j)
            /\ unique_sources[k].v.raw_content = Some(Text("r", 4))
            /\ ~Marked(k)

\* C13: format_sources prints one "Source N:" block per entry of the map, in
\* map order, numbered 1..n, block k with the title, the url and the content of
\* entry k; the text has no whitespace at its ends.
C13_OneBlockPerSource ==
    Formatted =>
        /\ Cardinality(SourcePlaces) = Len(unique_sources)
        /\ \A k \in Indices(unique_sources) :
                /\ formatted_text[BlockStart(k)].n = k
                /\ \A j \in Indices(unique_sources) : j < k => BlockStart(j) < BlockStart(k)
                /\ {formatted_text[p].str : p \in InBlock(k, "Title")}
                        = {unique_sources[k].v.title}
                /\ {formatted_text[p].str : p \in InBlock(k, "URL")} = {unique_sources[k].k}
                /\ {formatted_text[p].text :
                        p \in InBlock(k, "Most relevant content from source")}
                        = {unique_sources[k].v.content}
                /\ Cardinality(InBlock(k, "Title")) = 1
                /\ Cardinality(InBlock(k, "URL")) = 1
                /\ Cardinality(InBlock(k, "Most relevant content from source")) = 1
        /\ formatted_text # <<>>
        /\ Head(formatted_text) # Blank
        /\ formatted_text[Len(formatted_text)] # Blank

\* a map of two sources whose keys are not in alphabetical order
C13_Witness ==
    /\ Formatted
    /\ Keys(unique_sources) = <<"c", "a">>
    /\ Cardinality(SourcePlaces) = 2

\* C14: a search call carries a start_date only for the news category; for
\* general and finance the call is not restricted by recency.
C14_StartDateOnlyForNews ==
    \A i \in Indices(search_tasks) :
        /\ search_tasks[i].kwargs.topic = "news" =>
                "start_date" \in DOMAIN search_tasks[i].kwargs
        /\ search_tasks[i].kwargs.topic # "news" =>
                "start_date" \notin DOMAIN search_tasks[i].kwargs

PiecesOf(t, kind) == SelectSeq(t, LAMBDA piece : piece.kind = kind)

\* the run is over, its calls all succeeded and every record had a title
RanWithoutFailure ==
    /\ pc \in {"done", "failed"}
    /\ sum_tasks # <<>> /\ AllDone(sum_tasks)
    /\ Len(unique_sources) = Len(sum_tasks)
    /\ \A i \in Indices(unique_sources) : "title" \in DOMAIN unique_sources[i].v

\* C15: a run whose calls all succeed issues one summarization call per
\* distinct url of the search results, and its state.source_str has one
\* "Source N:" block per call, the urls in the order of the map.
C15_OneCallAndBlockPerUrl ==
    /\ [][(pc = "dedup" /\ pc' = "fanout") =>
                Len(unique_sources') =
                    Cardinality(UNION {{search_docs[i].results[j].url :
                                            j \in Indices(search_docs[i].results)} :
                                        i \in Indices(search_docs)})]_vars
    /\ [][(pc = "fanout" /\ pc' = "summarizing") =>
                Len(sum_tasks') = Len(unique_sources)]_vars
    /\ [](RanWithoutFailure =>
                /\ state.source_str # None
                /\ Len(PiecesOf(state.source_str[1], "Source")) = Len(sum_tasks)
                /\ [i \in Indices(sum_tasks) |->
                        PiecesOf(state.source_str[1], "URL")[i].str]
                        = Keys(unique_sources))

\* C16: the run does not go past the fan-out with an empty source map: no
\* summarization step is run on it.
C16_EmptyMapRaises ==
    (frame.who = "run_async"
        /\ pc \in {"summarizing", "aggregate", "merge", "format", "done"}) =>
            unique_sources # <<>>

\* C17: a record without url anywhere in the batches makes deduplicate_sources
\* raise: it returns no map, with or without the other records.
C17_MissingUrlRaises ==
    (pc # "idle" /\ \E p \in Places : "url" \notin DOMAIN RecordAt(p)) =>
        /\ pc = "failed"
        /\ error = "KeyError"
        /\ unique_sources = <<>>

\* the call raised on a record without url that came after a record with one
C17_Witness ==
    /\ pc = "failed"
    /\ \E p, q \in Places :
            /\ Before(p, q)
            /\ "url" \in DOMAIN RecordAt(p)
            /\ "url" \notin DOMAIN RecordAt(q)

\* C19: the keys of the returned map are in the order of the first occurrence
\* of each url in the concatenation of the batches.
C19_FirstSeenOrder ==
    pc = "returned" =>
        \A i, j \in Indices(unique_sources) :
            i < j <=> Before(FirstPlace(unique_sources[i].k),
                             FirstPlace(unique_sources[j].k))

\* a url is seen again after another url was first seen
C19_Witness ==
    /\ pc = "returned"
    /\ Len(unique_sources) >= 2
    /\ \E p, q, r \in Places :
            /\ Before(p, q) /\ Before(q, r)
            /\ RecordAt(p).url = RecordAt(r).url
            /\ RecordAt(p).url # RecordAt(q).url

\* the stage of the run a position belongs to, and the place of the stage in
\* VALIDATING, SEARCHING, DEDUPLICATING, SUMMARIZING, MERGING, FORMATTING, DONE
StageOf(p) ==
    CASE p = "idle" -> 1
      [] p \in {"call_search", "searching"} -> 2
      [] p = "dedup" -> 3
      [] p \in {"fanout", "summarizing", "aggregate"} -> 4
      [] p = "merge" -> 5
      [] p = "format" -> 6
      [] p = "done" -> 7
      [] p = "failed" -> 8

\* C18: the run goes from a stage to the next one or to FAILED and nowhere
\* else; it leaves SEARCHING for DEDUPLICATING only when every search call has
\* completed, and issues summarization calls only after that; once DONE or
\* FAILED it stays there, changes state no more and issues no call.
C18_StageOrder ==
    [][/\ StageOf(pc') # StageOf(pc) =>
            /\ StageOf(pc) \notin {7, 8}
            /\ pc' = "failed" \/ StageOf(pc') = StageOf(pc) + 1
       /\ (StageOf(pc) = 2 /\ StageOf(pc') = 3) => AllDone(search_tasks)
       /\ Len(sum_tasks') > Len(sum_tasks) =>
            /\ StageOf(pc) = 4
            /\ Pending(search_tasks) = {}
       /\ Len(search_tasks') > Len(search_tasks) => StageOf(pc) = 2
       /\ StageOf(pc) \in {7, 8} =>
            /\ state' = state
            /\ Len(search_tasks') = Len(search_tasks)
            /\ Len(sum_tasks') = Len(sum_tasks)]_vars

\* a run that went through every stage up to FORMATTING, and failed there
C18_Witness ==
    /\ pc = "failed"
    /\ error = "AttributeError"
    /\ formatted_text # <<>>
    /\ Len(sum_tasks) >= 2
    /\ state.token_usage # state0.token_usage

\* C20: while a call of a fan-out is pending and none has failed, the run is in
\* that step: nothing was deduplicated, summarized, added to token_usage,
\* merged or formatted from the calls that completed.
C20_StaysInStep ==
    /\ (Pending(search_tasks) # {} /\ ~SomeFailed(search_tasks)) =>
            /\ pc = "searching"
            /\ unique_sources = <<>>
            /\ sum_tasks = <<>>
            /\ state = state0
    /\ (Pending(sum_tasks) # {} /\ ~SomeFailed(sum_tasks)) =>
            /\ pc = "summarizing"
            /\ \A i \in Indices(unique_sources) : "url" \in DOMAIN unique_sources[i].v
            /\ formatted_text = <<>>
            /\ state = state0

\* one search is pending and another has answered with records
C20_Witness ==
    /\ pc = "searching"
    /\ Pending(search_tasks) # {}
    /\ ~SomeFailed(search_tasks)
    /\ \E i \in Indices(search_tasks) :
            /\ search_tasks[i].status = "done"
            /\ search_tasks[i].result[1].results # <<>>

\* what a run of run_async executed by itself leaves: the usage its own calls
\* reported added to its own state once they have all returned, its prompts
\* made of its own topic and sources, its summaries merged under its own urls
Aggregated(r) == r.pc \notin {"summarizing", "aggregate"} /\ AllDone(r.sum_tasks)
OwnUsage(r, field) ==
    IF Aggregated(r)
    THEN SumOver(Indices(r.sum_tasks),
                 [i \in Indices(r.sum_tasks) |-> r.sum_tasks[i].result[1].token_usage[field]])
    ELSE 0
AsAlone(r) ==
    /\ r.state.token_usage =
            [input_tokens |-> r.state0.token_usage.input_tokens
                                + OwnUsage(r, "input_tokens"),
             output_tokens |-> r.state0.token_usage.output_tokens
                                + OwnUsage(r, "output_tokens")]
    /\ r.pc # "done" =>
            [r.state EXCEPT !.token_usage = r.state0.token_usage] = r.state0
    /\ r.pc \in {"summarizing", "aggregate", "merge"} =>
            /\ Len(r.sum_tasks) = Len(r.unique_sources)
            /\ \A i \in Indices(r.sum_tasks) :
                    /\ r.sum_tasks[i].prompt.topic = r.state.topic
                    /\ r.sum_tasks[i].status # "failed" =>
                            r.sum_tasks[i].prompt.context = Context(r.unique_sources[i].v)
    /\ r.formatted_text # <<>> =>
            /\ Len(r.sum_tasks) = Len(r.unique_sources)
            /\ \A i \in Indices(r.sum_tasks) :
                    r.unique_sources[i].v.content = r.sum_tasks[i].result[1].content
            /\ [i \in Indices(r.sum_tasks) |->
                    PiecesOf(r.formatted_text, "URL")[i].str] = Keys(r.unique_sources)

\* C21: of two runs over two state objects, interleaved at their awaits in any
\* way, each leaves in its own state what it leaves when run by itself.
C21_RunsIndependent ==
    other # NoRun => AsAlone(ThisRun) /\ AsAlone(other[1])

\* one run is over, with usage added to its state, while the other is
\* suspended in its fan-out with a call answered, over different sources
C21_Witness ==
    /\ other # NoRun
    /\ pc = "failed"
    /\ formatted_text # <<>>
    /\ state.token_usage # state0.token_usage
    /\ other[1].pc = "summarizing"
    /\ \E i \in Indices(other[1].sum_tasks) : other[1].sum_tasks[i].status = "done"
    /\ Pending(other[1].sum_tasks) # {}
    /\ Keys(other[1].unique_sources) # Keys(unique_sources)

\* C22: once the package is imported, its public names are the names of
\* __all__ and 'tools', 'utils', 'base', no less and no more.
C22_PublicNames ==
    (pc # "import" /\ sys_modules # {}) =>
        namespace = AllNames \cup {"tools", "utils", "base"}

\* C23: strip_thinking_tokens terminates on every text: a turn of its loop
\* takes a "<think>" and a "</think>" out of the text, which gets shorter, so
\* the loop ends, also when a "</think>" stands before the first "<think>";
\* the text returned has not both tags.
C23_StripTerminates ==
    /\ [][pc = "strip" =>
            \/ pc' = "returned"
            \/ Len(text') < Len(text)]_vars
    /\ [](pc = "returned" => ~(Contains(text, "<think>") /\ Contains(text, "</think>")))

WebSearchMarkers(steps) ==
    Cardinality({i \in Indices(steps) : steps[i] = "web_search"})

\* C24: a run whose calls all succeed returns, and the state it returns has one
\* web-search marker more in steps, the usage of its calls added to
\* token_usage, and unique_sources and source_str computed by this run: run
\* again on that state, it adds the same once more.
C24_RunAccumulates ==
    RanWithoutFailure =>
        /\ pc = "done"
        /\ WebSearchMarkers(state.steps) = WebSearchMarkers(state0.steps) + 1
        /\ state.token_usage = AddUsage(state0.token_usage, out)
        /\ state.unique_sources = Some(unique_sources)
        /\ state.source_str = Some(formatted_text)

\* C25: when the coroutine is run whenever it can go on and every issued call
\* comes to an end, the run reaches DONE or FAILED.
C25_RunEnds == <>(pc \in {"done", "failed"})

\* the run ended when its last summarization call had come to an end
C25_Witness ==
    /\ pc = "failed"
    /\ Len(sum_tasks) >= 2
    /\ Pending(sum_tasks) = {}
    /\ sum_order[Len(sum_order)] = 1
    /\ sum_tasks[1].status = "failed"

WriterFailed == WriterRunning /\ pc = "failed"

MarkerAppended == state.steps = Append(state0.steps, "query_writer")

UsageAdded ==
    LET cb == frame.results[1].usage_metadata[1]
    IN  state.token_usage =
            [input_tokens |-> state0.token_usage.input_tokens + cb.input_tokens,
             output_tokens |-> state0.token_usage.output_tokens + cb.output_tokens]

AfterMarker ==
    /\ error = "LLMError" => MarkerAppended
    /\ error \in {"JSONDecodeError", "KeyError: queries"} =>
            MarkerAppended /\ UsageAdded
    /\ state.search_queries = state0.search_queries

\* C26 as stated: a run of QueryWriter.run that fails in the LLM call leaves the
\* marker appended to steps, one that fails in JSON parsing or on a missing
\* 'queries' leaves the marker appended and the usage added, search_queries is
\* unchanged in both, and only the missing-topic check fails with the state
\* fully unchanged.
C26_OnlyTopicCheckUnchanged ==
    WriterFailed =>
        /\ AfterMarker
        /\ state = state0 => error = "AttributeError"

\* C26 amended: as stated, but the runs that fail with the state fully
\* unchanged are those of the missing-topic check and of the configuration
\* lookup of lines 142-145; a run that fails on usage metadata without the
\* model leaves the marker appended and the usage as it was.
C26_FailureEffects ==
    WriterFailed =>
        /\ AfterMarker
        /\ state = state0 <=> error \in {"AttributeError", "ModuleNotFoundError"}
        /\ error \in {"LLMError", "KeyError: model"} =>
                MarkerAppended /\ state.token_usage = state0.token_usage

C26_Witness ==
    /\ WriterFailed
    /\ error = "KeyError: queries"
    /\ state0.search_queries # <<>>
    /\ frame.results[1].usage_metadata[1].output_tokens > 0
    /\ state.steps = <<"query_writer", "query_writer">>

RECURSIVE EntriesOf(_)
\* the entries the calls leave, in call order
EntriesOf(cs) ==
    IF cs = <<>> THEN <<>>
    ELSE LET c == cs[Len(cs)]
             before == EntriesOf(SubSeq(cs, 1, Len(cs) - 1))
             user == [role |-> "user", content |-> c.input_dict]
         IN  IF c.outcome.responder = "raises"
             THEN before \o <<user>>
             ELSE before \o <<user, [role |-> "assistant",
                                     content |-> c.outcome.response]>>

\* C27: Engine.history holds, in call order, for each call whose responder
\* returned a user entry with its input immediately followed by the assistant
\* entry with its response (two entries a call when all succeed), and for each
\* call whose responder raised a user entry with no assistant entry.
C27_HistoryPairs ==
    /\ history = EntriesOf(calls)
    /\ (\A i \in Indices(calls) : calls[i].outcome.responder = "returns") =>
            /\ Len(history) = 2 * Len(calls)
            /\ \A i \in Indices(calls) :
                /\ history[2 * i - 1] = [role |-> "user", content |-> calls[i].input_dict]
                /\ history[2 * i] =
                        [role |-> "assistant", content |-> calls[i].outcome.response]

\* a call whose responder raised between two that returned
C27_Witness ==
    /\ Len(calls) = 3
    /\ calls[1].outcome.responder = "returns"
    /\ calls[2].outcome.responder = "raises"
    /\ calls[3].outcome.responder = "returns"
    /\ Len(history) = 5
    /\ history[3].role = "user" /\ history[4].role = "user"

====
